---------------------------- MODULE Spec2Model ----------------------------
(***************************************************************************)
(* A model of the bitmap text renderer of RGB-LCD                          *)
(* (src/python/text_renderer.py, class TextRenderer).                      *)
(*                                                                         *)
(* A text is a sequence of one-character strings.  A font (font, size) is  *)
(* a directory holding metadata.json (char_sizes: decimal character code   *)
(* -> [width, height]) and one bitmap file per character code.  A bitmap   *)
(* is a record [w, h, dark]: its size and the set of its dark (foreground, *)
(* value 0) pixels <<x, y>>; every other pixel is light (255).             *)
(***************************************************************************)
EXTENDS Integers, Sequences, FiniteSets, TLC

VARIABLES
    font,      \* the font resources on disk: [meta, sizes, glyphs]
    req,       \* the arguments of the call being made
    pc,        \* where the call is: "idle", "wrap", "done"
    result,    \* what the call returned (or raised)
    wtext,     \* wrap_text: the text argument of the current recursion frame
    wlines,    \* wrap_text: the lines appended by the frames entered so far
    calls,     \* the calls that have returned in turn, each with its result
    main,      \* run.py: the locals of main() and where it is in its loop
    lcd        \* run.py: the display board as main() has left it

vars == <<font, req, pc, result, wtext, wlines, calls, main, lcd>>

----------------------------------------------------------------------------
(* Bounds of the checked instances.                                        *)

\* longest text given to wrap_text
MaxLen == 4
\* largest target width given to wrap_text
MaxWrapWidth == 4

----------------------------------------------------------------------------
(* Characters and their codes.                                             *)

SP == " "
NL == "\n"

\* get_char_code: CHAR_MAP is empty, so the code is ord(char).
get_char_code(char) ==
    CASE char = NL  -> 10
      [] char = SP  -> 32
      [] char = "A" -> 65
      [] char = "B" -> 66
      [] char = "a" -> 97
      [] char = "b" -> 98
      [] char = "c" -> 99

----------------------------------------------------------------------------
(* Python's string operations, on sequences of characters.                 *)

\* s[:k] for 0 <= k
Take(s, k) == SubSeq(s, 1, IF k < Len(s) THEN k ELSE Len(s))

\* s[k:] for 0 <= k
Drop(s, k) == SubSeq(s, k + 1, Len(s))

\* The position of the first sep in s, or 0.
RECURSIVE IndexOf(_, _, _)
IndexOf(s, sep, i) ==
    IF i > Len(s) THEN 0
    ELSE IF s[i] = sep THEN i
    ELSE IndexOf(s, sep, i + 1)

\* str.split(sep): the pieces between every occurrence of sep; never empty.
RECURSIVE Split(_, _)
Split(s, sep) ==
    LET i == IndexOf(s, sep, 1)
    IN  IF i = 0 THEN <<s>>
        ELSE <<SubSeq(s, 1, i - 1)>> \o Split(Drop(s, i), sep)

\* sep.join(parts)
RECURSIVE Join(_, _)
Join(parts, sep) ==
    IF Len(parts) = 0 THEN <<>>
    ELSE IF Len(parts) = 1 THEN parts[1]
    ELSE parts[1] \o <<sep>> \o Join(Tail(parts), sep)

\* str.splitlines(): split at line breaks; a final line break opens no line.
splitlines(text) ==
    LET parts == Split(text, NL)
    IN  IF parts[Len(parts)] = <<>> THEN SubSeq(parts, 1, Len(parts) - 1)
        ELSE parts

IsWhitespace(ch) == ch \in {SP, NL}

\* str.strip(): without leading and trailing whitespace.
RECURSIVE lstrip(_)
lstrip(s) ==
    IF s # <<>> /\ IsWhitespace(s[1]) THEN lstrip(Tail(s)) ELSE s

RECURSIVE rstrip(_)
rstrip(s) ==
    IF s # <<>> /\ IsWhitespace(s[Len(s)])
    THEN rstrip(SubSeq(s, 1, Len(s) - 1))
    ELSE s

strip(s) == rstrip(lstrip(s))

----------------------------------------------------------------------------
(* get_text_size: the width and height of a text from the metadata.        *)

Max(a, b) == IF a >= b THEN a ELSE b

\* [width, height] of a character: its entry in char_sizes, or nothing.
CharSize(char_sizes, char) ==
    LET key == get_char_code(char)
    IN  IF key \in DOMAIN char_sizes THEN char_sizes[key] ELSE <<0, 0>>

\* A get_text_size that adds h_spacing after the last character too.
RECURSIVE LineWidthSpacedToTheEnd(_, _, _, _)
LineWidthSpacedToTheEnd(char_sizes, line, h_spacing, idx) ==
    IF idx > Len(line) THEN 0
    ELSE CharSize(char_sizes, line[idx])[1] + h_spacing
         + LineWidthSpacedToTheEnd(char_sizes, line, h_spacing, idx + 1)

\* One line's width: the advance widths of the characters the table knows,
\* and h_spacing after every character but the last.
RECURSIVE LineWidth(_, _, _, _)
LineWidth(char_sizes, line, h_spacing, idx) ==
    IF idx > Len(line) THEN 0
    ELSE CharSize(char_sizes, line[idx])[1]
         + (IF idx < Len(line) THEN h_spacing ELSE 0)
         + LineWidth(char_sizes, line, h_spacing, idx + 1)

\* One line's height: the largest height of its characters.
RECURSIVE LineHeight(_, _, _)
LineHeight(char_sizes, line, idx) ==
    IF idx > Len(line) THEN 0
    ELSE Max(CharSize(char_sizes, line[idx])[2],
             LineHeight(char_sizes, line, idx + 1))

\* width is never reset: the widths of all the lines add up.
RECURSIVE TextWidth(_, _, _, _)
TextWidth(char_sizes, lines, h_spacing, idx) ==
    IF idx > Len(lines) THEN 0
    ELSE LineWidth(char_sizes, lines[idx], h_spacing, 1)
         + TextWidth(char_sizes, lines, h_spacing, idx + 1)

\* The heights of the lines, and v_spacing after every line but the last.
RECURSIVE TextHeight(_, _, _, _)
TextHeight(char_sizes, lines, v_spacing, idx) ==
    IF idx > Len(lines) THEN 0
    ELSE LineHeight(char_sizes, lines[idx], 1)
         + (IF idx < Len(lines) THEN v_spacing ELSE 0)
         + TextHeight(char_sizes, lines, v_spacing, idx + 1)

get_text_size(char_sizes, text, h_spacing, v_spacing) ==
    <<TextWidth(char_sizes, splitlines(text), h_spacing, 1),
      TextHeight(char_sizes, splitlines(text), v_spacing, 1)>>

----------------------------------------------------------------------------
(* wrap_text.                                                              *)

Fits(char_sizes, width, text, h_spacing) ==
    get_text_size(char_sizes, text, h_spacing, 0)[1] <= width

\* words[:-k] joined: the text before the last k words.
PartialLine(words, k) == Join(SubSeq(words, 1, Len(words) - k), SP)

\* A wrap_text that accepts the text without its last word unmeasured.
WordsDroppedUnmeasured(char_sizes, width, words, h_spacing, k) == k

\* A wrap_text that drops two words at a time.
RECURSIVE WordsDroppedByTwo(_, _, _, _, _)
WordsDroppedByTwo(char_sizes, width, words, h_spacing, k) ==
    LET partial_line == PartialLine(words, k)
    IN  IF partial_line = <<>> \/ Fits(char_sizes, width, partial_line, h_spacing)
        THEN k
        ELSE WordsDroppedByTwo(char_sizes, width, words, h_spacing, k + 2)

\* The outer loop: the number of trailing words dropped when it stops, that
\* is at the first partial line that is empty or fits.
RECURSIVE WordsDropped(_, _, _, _, _)
WordsDropped(char_sizes, width, words, h_spacing, k) ==
    LET partial_line == PartialLine(words, k)
    IN  IF partial_line = <<>> \/ Fits(char_sizes, width, partial_line, h_spacing)
        THEN k
        ELSE WordsDropped(char_sizes, width, words, h_spacing, k + 1)

\* A wrap_text that cuts the last character off and measures nothing.
CharsDroppedUnmeasured(char_sizes, width, word, h_spacing, k) == k

\* The inner loop: the number of trailing characters dropped when it stops,
\* that is at the first partial word that is empty or fits.
RECURSIVE CharsDropped(_, _, _, _, _)
CharsDropped(char_sizes, width, word, h_spacing, k) ==
    LET partial_word == Take(word, Len(word) - k)
    IN  IF Len(word) - k <= 0 \/ Fits(char_sizes, width, partial_word, h_spacing)
        THEN k
        ELSE CharsDropped(char_sizes, width, word, h_spacing, k + 1)

\* A wrap_text that forgets what it cut off the word.
BreakWordLosingRest(char_sizes, width, words, h_spacing) ==
    [line |-> Take(words[1], 1), remainder |-> Join(Tail(words), SP)]

\* A wrap_text that puts the whole word back, not only what it cut off.
BreakWordWholeBack(char_sizes, width, words, h_spacing) ==
    [line |-> Take(words[1], 1),
     remainder |-> words[1] \o <<SP>> \o Join(Tail(words), SP)]

\* break_words: the first word is cut; what is left of it goes back in front
\* of the other words.
BreakWord(char_sizes, width, words, h_spacing) ==
    LET word == words[1]
        k    == CharsDropped(char_sizes, width, word, h_spacing, 1)
        rest == Join(Tail(words), SP)
    IN  IF Len(word) - k <= 0
        THEN IF word = <<>>
             THEN [line |-> <<>>, remainder |-> rest]
             ELSE [line |-> <<word[1]>>,
                   remainder |-> Tail(word) \o <<SP>> \o rest]
        ELSE [line |-> Take(word, Len(word) - k),
              remainder |-> Drop(word, Len(word) - k) \o <<SP>> \o rest]

\* not break_words: the first word is a line, however wide.
KeepWord(words) ==
    [line |-> words[1], remainder |-> Join(Tail(words), SP)]

\* One frame of wrap_text on a text that does not fit: the line it appends
\* and the remainder it calls itself with.
WrapFrame(char_sizes, width, text, h_spacing, break_words) ==
    LET words == Split(text, SP)
        k     == WordsDropped(char_sizes, width, words, h_spacing, 1)
    IN  IF PartialLine(words, k) = <<>>
        THEN IF break_words
             THEN BreakWord(char_sizes, width, words, h_spacing)
             ELSE KeepWord(words)
        ELSE [line |-> PartialLine(words, k),
              remainder |-> Join(SubSeq(words, Len(words) - k + 1, Len(words)), SP)]

RECURSIVE wrap_text(_, _, _, _, _)
wrap_text(char_sizes, width, text, h_spacing, break_words) ==
    IF Fits(char_sizes, width, text, h_spacing)
    THEN <<text>>
    ELSE LET f == WrapFrame(char_sizes, width, text, h_spacing, break_words)
         IN  <<f.line>> \o
             wrap_text(char_sizes, width, f.remainder, h_spacing, break_words)


----------------------------------------------------------------------------
(* Bitmaps: PIL images of mode 'L' holding the two values 255 (img_bg) and *)
(* 0 (img_fg).                                                             *)

\* Image.new(img_mode, (w, h), color=img_bg)
NewImage(w, h) == [w |-> w, h |-> h, dark |-> {}]

Pixels(img) == (0..(img.w - 1)) \X (0..(img.h - 1))

InBox(p, left, top, right, bottom) ==
    p[1] >= left /\ p[1] < right /\ p[2] >= top /\ p[2] < bottom

\* A paste that keeps what falls outside img.
PasteUnclipped(img, src, x, y) ==
    [img EXCEPT !.dark = {p \in @ : ~InBox(p, x, y, x + src.w, y + src.h)}
                         \cup {<<p[1] + x, p[2] + y>> : p \in src.dark}]

\* img.paste(src, (x, y)): src replaces the pixels under it; what falls
\* outside img is dropped.
Paste(img, src, x, y) ==
    LET kept  == {p \in img.dark : ~InBox(p, x, y, x + src.w, y + src.h)}
        moved == {<<p[1] + x, p[2] + y>> : p \in src.dark}
    IN  [img EXCEPT !.dark = kept \cup {p \in moved : InBox(p, 0, 0, img.w, img.h)}]

\* img.crop(box), for a box inside img
Crop(img, box) ==
    [w |-> box[3] - box[1], h |-> box[4] - box[2],
     dark |-> {<<p[1] - box[1], p[2] - box[2]>> :
                 p \in {q \in img.dark : InBox(q, box[1], box[2], box[3], box[4])}}]

\* ImageOps.invert(img)
Invert(img) == [img EXCEPT !.dark = Pixels(img) \ @]

\* What getbbox() returns for an image without a non-zero pixel.
NoBox == <<>>

MinOf(S) == CHOOSE m \in S : \A n \in S : m <= n
MaxOf(S) == CHOOSE m \in S : \A n \in S : m >= n

\* ImageOps.invert(img).getbbox(): the box around the pixels that are not
\* background.
getbbox(img) ==
    IF img.dark = {} THEN NoBox
    ELSE LET xs == {p[1] : p \in img.dark}
             ys == {p[2] : p \in img.dark}
         IN  <<MinOf(xs), MinOf(ys), MaxOf(xs) + 1, MaxOf(ys) + 1>>

----------------------------------------------------------------------------
(* The font directory.                                                     *)

\* force_width (char_width) is None
None == -1

\* A get_font_metadata that falls back to an empty table.
get_font_metadataOrEmpty(f) ==
    [ok |-> TRUE, char_sizes |-> IF f.meta THEN f.sizes ELSE <<>>]

\* get_font_metadata: open() raises when metadata.json is not there.
get_font_metadata(f) ==
    IF f.meta THEN [ok |-> TRUE, char_sizes |-> f.sizes]
    ELSE [ok |-> FALSE, error |-> "FileNotFoundError"]

----------------------------------------------------------------------------
(* render_character and the loops over the characters.                     *)

\* A render_character that moves the cursor past a glyph it did not find.
render_characterSkipping(img, x, y, force_width, glyphs, code) ==
    IF code \notin DOMAIN glyphs
    THEN [success |-> FALSE, img |-> img,
          x |-> x + (IF force_width # None THEN force_width ELSE 1), y |-> y]
    ELSE LET char_img == glyphs[code]
         IN  [success |-> TRUE,
              img |-> Paste(img,
                            IF force_width # None /\ force_width < char_img.w
                            THEN Crop(char_img, <<0, 0, force_width, char_img.h>>)
                            ELSE char_img,
                            x, y),
              x |-> x + (IF force_width # None THEN force_width ELSE char_img.w),
              y |-> y]

\* A render_character that clears the cell of a glyph it did not find.
render_characterBlanking(img, x, y, force_width, glyphs, code) ==
    LET cell == IF code \in DOMAIN glyphs THEN glyphs[code]
                ELSE NewImage(IF force_width # None THEN force_width ELSE 1, 2)
    IN  [success |-> code \in DOMAIN glyphs,
         img |-> Paste(img,
                       IF force_width # None /\ force_width < cell.w
                       THEN Crop(cell, <<0, 0, force_width, cell.h>>)
                       ELSE cell,
                       x, y),
         x |-> IF code \notin DOMAIN glyphs THEN x
               ELSE IF force_width # None THEN x + force_width ELSE x + cell.w,
         y |-> y]

render_character(img, x, y, force_width, glyphs, code) ==
    IF code \notin DOMAIN glyphs
    THEN [success |-> FALSE, img |-> img, x |-> x, y |-> y]
    ELSE LET char_img == glyphs[code]
         IN  IF force_width # None
             THEN [success |-> TRUE,
                   img |-> Paste(img,
                                 IF force_width < char_img.w
                                 THEN Crop(char_img, <<0, 0, force_width, char_img.h>>)
                                 ELSE char_img,
                                 x, y),
                   x |-> x + force_width, y |-> y]
             ELSE [success |-> TRUE, img |-> Paste(img, char_img, x, y),
                   x |-> x + char_img.w, y |-> y]

\* The cursor after a character: render_character's x, and the spacing.
Advance(r, spacing) == r.x + spacing

\* for char in text: render_character(...); x += spacing.  st is the canvas,
\* the cursor x and the cursor positions xs the characters before were
\* rendered at.
RECURSIVE RenderChars(_, _, _, _, _, _, _)
RenderChars(st, text, idx, y, force_width, spacing, glyphs) ==
    IF idx > Len(text) THEN st
    ELSE LET r == render_character(st.img, st.x, y, force_width, glyphs,
                                   get_char_code(text[idx]))
         IN  RenderChars([img |-> r.img, x |-> Advance(r, spacing),
                          xs |-> Append(st.xs, st.x)],
                         text, idx + 1, y, force_width, spacing, glyphs)

----------------------------------------------------------------------------
(* The realignment of the whole block, and the inversion.                  *)

\* An XOffset that does not know 'right'.
XOffsetNoRight(halign, width, cropped_width) ==
    IF halign = "center" THEN (width - cropped_width) \div 2 ELSE 0

XOffset(halign, width, cropped_width) ==
    IF halign = "center" THEN (width - cropped_width) \div 2
    ELSE IF halign = "right" THEN width - cropped_width
    ELSE 0

\* A YOffset that does not halve the room for 'middle'.
YOffsetUnhalved(valign, height, cropped_height) ==
    IF valign \in {"middle", "bottom"} THEN height - cropped_height ELSE 0

YOffset(valign, height, cropped_height) ==
    IF valign = "middle" THEN (height - cropped_height) \div 2
    ELSE IF valign = "bottom" THEN height - cropped_height
    ELSE 0

\* A realignment that moves the canvas as it is, without cropping it.
RealignUncropped(text_img, width, height, halign, valign) ==
    IF halign \in {"center", "right"} \/ valign \in {"middle", "bottom"}
    THEN LET bbox == getbbox(text_img)
         IN  IF bbox # NoBox
             THEN Paste(NewImage(width, height), text_img,
                        XOffset(halign, width, bbox[3] - bbox[1]),
                        YOffset(valign, height, bbox[4] - bbox[2]))
             ELSE text_img
    ELSE text_img

Realign(text_img, width, height, halign, valign) ==
    IF halign \in {"center", "right"} \/ valign \in {"middle", "bottom"}
    THEN LET bbox == getbbox(text_img)
         IN  IF bbox # NoBox
             THEN LET cropped == Crop(text_img, bbox)
                  IN  Paste(NewImage(width, height), cropped,
                            XOffset(halign, width, cropped.w),
                            YOffset(valign, height, cropped.h))
             ELSE text_img
    ELSE text_img

Finish(text_img, inverted) == IF inverted THEN Invert(text_img) ELSE text_img

----------------------------------------------------------------------------
(* render_text.                                                            *)

render_text(f, r) ==
    LET st == RenderChars([img |-> NewImage(r.width, r.height),
                           x |-> r.pad_left, xs |-> <<>>],
                          r.text, 1, r.pad_top, r.char_width, r.spacing, f.glyphs)
    IN  [status |-> "ok",
         img |-> Finish(Realign(st.img, r.width, r.height, r.halign, r.valign),
                        r.inverted),
         xs |-> st.xs, ys |-> <<>>]

----------------------------------------------------------------------------
(* render_multiline_text.                                                  *)

\* The lines rendered: the explicit lines, each wrapped if auto_wrap.
RECURSIVE RenderLines(_, _, _, _)
RenderLines(char_sizes, r, lines, idx) ==
    IF idx > Len(lines) THEN <<>>
    ELSE (IF r.auto_wrap
          THEN wrap_text(char_sizes, r.width, lines[idx], r.h_spacing, r.break_words)
          ELSE <<lines[idx]>>)
         \o RenderLines(char_sizes, r, lines, idx + 1)

\* The line as rendered: stripped, a space if nothing is left.
Stripped(render_line) ==
    IF strip(render_line) = <<>> THEN <<SP>> ELSE strip(render_line)

\* The offset of a line in the canvas, before pad_left.
LineXOffset(halign, width, r_line_width) ==
    IF halign = "center" THEN (width - r_line_width) \div 2
    ELSE IF halign = "right" THEN width - r_line_width - 1
    ELSE 0

\* A PasteLine that forgets v_spacing.
PasteLineUnspaced(st, char_sizes, glyphs, r, line) ==
    LET render_line == Stripped(line)
        size        == get_text_size(char_sizes, render_line, r.h_spacing, r.v_spacing)
        line_st     == RenderChars([img |-> NewImage(size[1], size[2]),
                                    x |-> 0, xs |-> <<>>],
                                   render_line, 1, 0, r.char_width, r.h_spacing, glyphs)
    IN  [img |-> Paste(st.img, line_st.img,
                       LineXOffset(r.halign, r.width, size[1]) + r.pad_left, st.y),
         y   |-> st.y + size[2],
         ys  |-> Append(st.ys, st.y),
         xs  |-> Append(st.xs, line_st.xs)]

\* One render-line: measured, rendered into an image of its own and pasted
\* at the vertical cursor, which moves on.  st is the canvas, the cursor y
\* and the positions ys the lines before were pasted at.
PasteLine(st, char_sizes, glyphs, r, line) ==
    LET render_line == Stripped(line)
        size        == get_text_size(char_sizes, render_line, r.h_spacing, r.v_spacing)
        line_st     == RenderChars([img |-> NewImage(size[1], size[2]),
                                    x |-> 0, xs |-> <<>>],
                                   render_line, 1, 0, r.char_width, r.h_spacing, glyphs)
    IN  [img |-> Paste(st.img, line_st.img,
                       LineXOffset(r.halign, r.width, size[1]) + r.pad_left, st.y),
         y   |-> st.y + size[2] + r.v_spacing,
         ys  |-> Append(st.ys, st.y),
         xs  |-> Append(st.xs, line_st.xs)]

RECURSIVE PasteLines(_, _, _, _, _, _)
PasteLines(st, char_sizes, glyphs, r, render_lines, idx) ==
    IF idx > Len(render_lines) THEN st
    ELSE PasteLines(PasteLine(st, char_sizes, glyphs, r, render_lines[idx]),
                    char_sizes, glyphs, r, render_lines, idx + 1)

render_multiline_text(f, r) ==
    LET metadata == get_font_metadata(f)
    IN  IF ~metadata.ok THEN [status |-> "error", error |-> metadata.error]
        ELSE LET lines == RenderLines(metadata.char_sizes, r, splitlines(r.text), 1)
                 st    == PasteLines([img |-> NewImage(r.width, r.height),
                                      y |-> r.pad_top, ys |-> <<>>, xs |-> <<>>],
                                     metadata.char_sizes, f.glyphs, r, lines, 1)
             IN  [status |-> "ok",
                  img |-> Finish(Realign(st.img, r.width, r.height,
                                         r.halign, r.valign), r.inverted),
                  xs |-> st.xs, ys |-> st.ys]

----------------------------------------------------------------------------
(* The calls of wrap_text that are checked: every text of at most MaxLen   *)
(* characters over WrapChars, every width up to MaxWrapWidth, under a few  *)
(* metadata tables (one without an entry for the space, one with a glyph   *)
(* wider than every width); and the scenario of the specification, width   *)
(* 50 and "a bb ccccccccccc".                                              *)

WrapChars == {"a", "b", SP}

Texts(chars, n) == UNION {[1..k -> chars] : k \in 0..n}

\* char_sizes with these advance widths (0: no entry), every glyph 2 high
SizeTable(wa, wb, wc, wsp) ==
    LET w == (97 :> wa) @@ (98 :> wb) @@ (99 :> wc) @@ (32 :> wsp)
    IN  [code \in {k \in DOMAIN w : w[k] > 0} |-> <<w[code], 2>>]

WrapTables ==
    { SizeTable(1, 2, 1, 1), SizeTable(1, 3, 1, 0),
      SizeTable(2, MaxWrapWidth + 2, 1, 2), SizeTable(0, 1, 1, 1) }

WrapRequests ==
    [ width : 0..MaxWrapWidth, text : Texts(WrapChars, MaxLen),
      h_spacing : {0, 1}, break_words : BOOLEAN ]

ScenarioText ==
    <<"a", SP, "b", "b", SP,
      "c", "c", "c", "c", "c", "c", "c", "c", "c", "c", "c">>

ScenarioTables ==
    { SizeTable(wa, wb, wc, wsp) :
        wa \in {1, 6}, wb \in {1, 6}, wc \in {4, 5, 7, 12, 25, 50}, wsp \in {0, 3} }

ScenarioRequest ==
    [ width |-> 50, text |-> ScenarioText, h_spacing |-> 1, break_words |-> TRUE ]

NoFiles == [c \in {} |-> 0]

\* run.py is not running: main() has no locals and no display is opened.
NotStarted == [at |-> "off"]
NoDisplay == [shown |-> 0]

\* The renderer is constructed over a font directory; nothing is called yet.
InitWrap ==
    /\ \E t \in WrapTables \cup ScenarioTables :
          font = [meta |-> TRUE, sizes |-> t, glyphs |-> NoFiles]
    /\ pc = "idle"
    /\ req = [op |-> "none"]
    /\ wtext = <<>>
    /\ wlines = <<>>
    /\ result = [status |-> "none"]
    /\ calls = <<>>
    /\ main = NotStarted
    /\ lcd = NoDisplay

\* lines 76, 83: wrap_text is called; no line is there yet
WrapCall ==
    /\ pc = "idle"
    /\ \/ font.sizes \in WrapTables /\ req' \in WrapRequests
       \/ font.sizes \in ScenarioTables /\ req' = ScenarioRequest
    /\ pc' = "wrap"
    /\ wtext' = req'.text
    /\ wlines' = <<>>
    /\ UNCHANGED <<font, result, calls, main, lcd>>

WrapFits == Fits(font.sizes, req.width, wtext, req.h_spacing)

WrapCurrent ==
    WrapFrame(font.sizes, req.width, wtext, req.h_spacing, req.break_words)

WrapNoPrefix ==
    LET words == Split(wtext, SP)
    IN  PartialLine(words,
            WordsDropped(font.sizes, req.width, words, req.h_spacing, 1)) = <<>>

Recurse ==
    /\ wlines' = Append(wlines, WrapCurrent.line)
    /\ wtext' = WrapCurrent.remainder
    /\ UNCHANGED <<font, req, pc, result, calls, main, lcd>>

\* lines 78-80: the text fits and is the frame's only line
WrapReturn ==
    /\ pc = "wrap" /\ WrapFits
    /\ pc' = "done"
    /\ wlines' = Append(wlines, wtext)
    /\ result' = [status |-> "ok", lines |-> wlines']
    /\ UNCHANGED <<font, req, wtext, calls, main, lcd>>

\* lines 136-142: a prefix of the words fits
WrapAcceptPrefix ==
    /\ pc = "wrap" /\ ~WrapFits /\ ~WrapNoPrefix
    /\ Recurse

\* lines 95-127: not even the first word fits, and it is broken
WrapBreakWord ==
    /\ pc = "wrap" /\ ~WrapFits /\ WrapNoPrefix /\ req.break_words
    /\ Recurse

\* lines 128-135: not even the first word fits, and it is kept whole
WrapKeepWord ==
    /\ pc = "wrap" /\ ~WrapFits /\ WrapNoPrefix /\ ~req.break_words
    /\ Recurse

NextWrap ==
    WrapCall \/ WrapReturn \/ WrapAcceptPrefix \/ WrapBreakWord \/ WrapKeepWord

SpecWrap == InitWrap /\ [][NextWrap]_vars

----------------------------------------------------------------------------
(* The render calls that are checked.  Three small fonts: a complete one,  *)
(* one whose bitmap of 'b' is missing, one whose metadata.json is missing; *)
(* and the font F of the specification's scenario, 'A' and 'B' of 8x14.    *)

FullRect(w, h) == [w |-> w, h |-> h, dark |-> (0..(w - 1)) \X (0..(h - 1))]

\* 'a': 1x2, ink below; 'b': 2x2, ink in three pixels; the space: 1x2, blank
SmallGlyphs ==
    (97 :> [w |-> 1, h |-> 2, dark |-> {<<0, 1>>}]) @@
    (98 :> [w |-> 2, h |-> 2, dark |-> {<<0, 0>>, <<1, 0>>, <<1, 1>>}]) @@
    (32 :> [w |-> 1, h |-> 2, dark |-> {}])

SmallSizes == (97 :> <<1, 2>>) @@ (98 :> <<2, 2>>) @@ (32 :> <<1, 2>>)

FontComplete == [meta |-> TRUE, sizes |-> SmallSizes, glyphs |-> SmallGlyphs]

FontNoB ==
    [meta |-> TRUE, sizes |-> SmallSizes,
     glyphs |-> [c \in {97, 32} |-> SmallGlyphs[c]]]

FontNoMetadata == [meta |-> FALSE, sizes |-> NoFiles, glyphs |-> SmallGlyphs]

FontF ==
    [meta |-> TRUE, sizes |-> (65 :> <<8, 14>>) @@ (66 :> <<8, 14>>),
     glyphs |-> (65 :> FullRect(8, 14)) @@ (66 :> FullRect(8, 14))]

\* glyphs of different heights, and neither entry nor bitmap for the space
FontTall ==
    [meta |-> TRUE, sizes |-> (97 :> <<1, 1>>) @@ (98 :> <<2, 3>>),
     glyphs |-> (97 :> FullRect(1, 1)) @@ (98 :> FullRect(2, 3))]

SmallFonts == {FontComplete, FontNoB, FontNoMetadata}

\* largest canvas
MaxWidth == 4
MaxHeight == 3
\* longest text rendered
MaxTextLen == 3

\* Where the text goes: every canvas, padding, alignment and polarity; and
\* a few of them, for use with every text.
Placements ==
    [ width : 1..MaxWidth, height : 1..MaxHeight,
      pad_left : {0, 1}, pad_top : {0, 1},
      halign : {"left", "center", "right"},
      valign : {"top", "middle", "bottom"},
      inverted : BOOLEAN ]

FewPlacements ==
    [ width : {2, MaxWidth}, height : {MaxHeight},
      pad_left : {0}, pad_top : {0},
      halign : {"left", "center", "right"},
      valign : {"top", "middle"},
      inverted : {FALSE} ]

\* What is rendered by render_text: every text, spacing and forced width;
\* and a few of them, for use with every placement.
Layouts ==
    [ spacing : {0, 1}, char_width : {None, 1},
      text : Texts({"a", "b", SP}, MaxTextLen) ]

FewLayouts ==
    [ spacing : {0, 1}, char_width : {None, 1},
      text : {<<"b">>, <<"b", "a">>} ]

\* The same for render_multiline_text.
\* (break_words is read by wrap_text only, that is with auto_wrap)
MultilineLayouts ==
    { l \in [ h_spacing : {0, 1}, v_spacing : {0, 1}, char_width : {None},
              auto_wrap : BOOLEAN, break_words : BOOLEAN,
              text : Texts({"a", "b", SP, NL}, MaxTextLen) ] :
        l.auto_wrap \/ l.break_words }

FewMultilineLayouts ==
    [ h_spacing : {0}, v_spacing : {0, 1}, char_width : {None, 1},
      auto_wrap : BOOLEAN, break_words : {TRUE},
      text : {<<"b", "b">>, <<"a", NL, "b">>, <<"a", SP, "b">>} ]

\* The layouts rendered with the font of different heights.
TallLayouts ==
    [ h_spacing : {0}, v_spacing : {0, 1}, char_width : {None},
      auto_wrap : BOOLEAN, break_words : {TRUE},
      text : Texts({"a", "b", SP, NL}, MaxTextLen) ]

RenderTextRequest(p, l) ==
    [op |-> "render_text", width |-> p.width, height |-> p.height,
     pad_left |-> p.pad_left, pad_top |-> p.pad_top,
     halign |-> p.halign, valign |-> p.valign, inverted |-> p.inverted,
     spacing |-> l.spacing, char_width |-> l.char_width, text |-> l.text]

RenderMultilineRequest(p, l) ==
    [op |-> "render_multiline_text", width |-> p.width, height |-> p.height,
     pad_left |-> p.pad_left, pad_top |-> p.pad_top,
     halign |-> p.halign, valign |-> p.valign, inverted |-> p.inverted,
     h_spacing |-> l.h_spacing, v_spacing |-> l.v_spacing,
     char_width |-> l.char_width, text |-> l.text,
     auto_wrap |-> l.auto_wrap, break_words |-> l.break_words]

\* Every placement with a few layouts; a few placements with every layout.
RenderTextRequests ==
    {RenderTextRequest(p, l) : p \in Placements, l \in FewLayouts}

MoreRenderTextRequests ==
    {RenderTextRequest(p, l) : p \in FewPlacements, l \in Layouts}

RenderMultilineRequests ==
    {RenderMultilineRequest(p, l) : p \in Placements, l \in FewMultilineLayouts}

\* The calls made without metadata.json, which all end at line 193.
FewRenderMultilineRequests ==
    {RenderMultilineRequest(p, l) : p \in FewPlacements, l \in FewMultilineLayouts}

MoreRenderMultilineRequests ==
    {RenderMultilineRequest(p, l) : p \in FewPlacements, l \in MultilineLayouts}

TallRenderMultilineRequests ==
    {RenderMultilineRequest(p, l) : p \in FewPlacements, l \in TallLayouts}

\* render_text(width=24, height=16, font="F", size=0, halign='center',
\* valign='middle', text="AB"), and the same text as a multi-line call
ScenarioPlacement ==
    [width |-> 24, height |-> 16, pad_left |-> 0, pad_top |-> 0,
     halign |-> "center", valign |-> "middle", inverted |-> FALSE]

ScenarioRenderText ==
    RenderTextRequest(ScenarioPlacement,
        [spacing |-> 0, char_width |-> None, text |-> <<"A", "B">>])

ScenarioRenderMultiline ==
    RenderMultilineRequest(ScenarioPlacement,
        [h_spacing |-> 0, v_spacing |-> 0, char_width |-> None,
         auto_wrap |-> FALSE, break_words |-> TRUE, text |-> <<"A", "B">>])

\* The renderer is constructed over a font directory; nothing is called yet.
Init ==
    /\ font \in SmallFonts \cup {FontTall, FontF}
    /\ pc = "idle"
    /\ req = [op |-> "none"]
    /\ wtext = <<>>
    /\ wlines = <<>>
    /\ result = [status |-> "none"]
    /\ calls = <<>>
    /\ main = NotStarted
    /\ lcd = NoDisplay

\* lines 160-190: a call of render_text
RenderText ==
    /\ pc = "idle"
    /\ \/ font \in SmallFonts /\ req' \in RenderTextRequests
       \/ font \in {FontComplete, FontNoB} /\ req' \in MoreRenderTextRequests
       \/ font = FontF /\ req' = ScenarioRenderText
    /\ result' = render_text(font, req')
    /\ pc' = "done"
    /\ UNCHANGED <<font, wtext, wlines, calls, main, lcd>>

\* lines 192-248: a call of render_multiline_text
RenderMultilineText ==
    /\ pc = "idle"
    /\ \/ font \in {FontComplete, FontNoB} /\ req' \in RenderMultilineRequests
       \/ font = FontNoMetadata /\ req' \in FewRenderMultilineRequests
       \/ font \in {FontComplete, FontNoB} /\ req' \in MoreRenderMultilineRequests
       \/ font = FontTall /\ req' \in TallRenderMultilineRequests
       \/ font = FontF /\ req' = ScenarioRenderMultiline
    /\ result' = render_multiline_text(font, req')
    /\ pc' = "done"
    /\ UNCHANGED <<font, wtext, wlines, calls, main, lcd>>

Next == RenderText \/ RenderMultilineText

Spec == Init /\ [][Next]_vars

----------------------------------------------------------------------------
(* The calls of get_text_size and render_character that are checked: every *)
(* text of at most MaxTextLen characters with line breaks, under the small *)
(* fonts and a font whose glyphs differ in height and whose metadata has   *)
(* no entry for the space; every 2x2 canvas, with cursors in and around it.*)

MeasureRequests ==
    [ op : {"get_text_size"}, text : Texts({"a", "b", SP, NL}, MaxTextLen),
      h_spacing : {0, 1, 2}, v_spacing : {0, 1, 3} ]

Canvases == {[w |-> 2, h |-> 2, dark |-> d] : d \in SUBSET ((0..1) \X (0..1))}

RenderCharacterRequests ==
    [ op : {"render_character"}, img : Canvases, x : -1..2, y : -1..1,
      force_width : {None, 1, 3}, code : {97, 98, 32} ]

InitHelpers ==
    /\ font \in SmallFonts \cup {FontTall}
    /\ pc = "idle"
    /\ req = [op |-> "none"]
    /\ wtext = <<>>
    /\ wlines = <<>>
    /\ result = [status |-> "none"]
    /\ calls = <<>>
    /\ main = NotStarted
    /\ lcd = NoDisplay

\* lines 54-74: a call of get_text_size
GetTextSize ==
    /\ pc = "idle"
    /\ req' \in MeasureRequests
    /\ LET metadata == get_font_metadata(font)
       IN  result' = IF ~metadata.ok
                     THEN [status |-> "error", error |-> metadata.error]
                     ELSE [status |-> "ok",
                           size |-> get_text_size(metadata.char_sizes, req'.text,
                                                  req'.h_spacing, req'.v_spacing)]
    /\ pc' = "done"
    /\ UNCHANGED <<font, wtext, wlines, calls, main, lcd>>

\* lines 145-158: a call of render_character on a canvas
RenderCharacter ==
    /\ pc = "idle"
    /\ req' \in RenderCharacterRequests
    /\ LET r == render_character(req'.img, req'.x, req'.y, req'.force_width,
                                 font.glyphs, req'.code)
       IN  result' = [status |-> "ok", success |-> r.success, img |-> r.img,
                      x |-> r.x, y |-> r.y]
    /\ pc' = "done"
    /\ UNCHANGED <<font, wtext, wlines, calls, main, lcd>>

NextHelpers == GetTextSize \/ RenderCharacter

SpecHelpers == InitHelpers /\ [][NextHelpers]_vars

----------------------------------------------------------------------------
(* Calls in turn on one renderer: a few requests of each kind, made in any *)
(* order, at most MaxCalls of them.                                        *)

\* most calls made in turn
MaxCalls == 3

TurnPlacements ==
    { [width |-> 3, height |-> 2, pad_left |-> pl, pad_top |-> 0,
       halign |-> "left", valign |-> va, inverted |-> FALSE] :
          pl \in {0, 1}, va \in {"top", "bottom"} }

TurnRenderTextRequests ==
    { RenderTextRequest(p, [spacing |-> 0, char_width |-> None, text |-> <<"a", "b">>]) :
          p \in TurnPlacements }

TurnRenderMultilineRequests ==
    { RenderMultilineRequest(p,
          [h_spacing |-> 0, v_spacing |-> 0, char_width |-> None,
           auto_wrap |-> TRUE, break_words |-> TRUE, text |-> <<"b", SP, "a">>]) :
          p \in TurnPlacements }

TurnMeasureRequests ==
    { [op |-> "get_text_size", text |-> t, h_spacing |-> 1, v_spacing |-> 0] :
          t \in {<<"a", "b">>, <<"b", NL, "a">>} }

TurnWrapRequests ==
    { [op |-> "wrap_text", width |-> w, text |-> <<"a", SP, "b">>,
       h_spacing |-> 0, break_words |-> TRUE] : w \in {1, 3} }

InitCalls ==
    /\ font \in {FontComplete, FontNoB}
    /\ pc = "idle"
    /\ req = [op |-> "none"]
    /\ wtext = <<>>
    /\ wlines = <<>>
    /\ result = [status |-> "none"]
    /\ calls = <<>>
    /\ main = NotStarted
    /\ lcd = NoDisplay

\* The call returns: the renderer is ready for the next one.
Returns ==
    /\ pc' = "done"
    /\ calls' = Append(calls, [req |-> req', result |-> result'])
    /\ UNCHANGED <<font, wtext, wlines, main, lcd>>

CanCall == pc \in {"idle", "done"} /\ Len(calls) < MaxCalls

\* A render_text that draws on the canvas the call before has left.
CallRenderTextOnLeftCanvas ==
    /\ CanCall
    /\ req' \in TurnRenderTextRequests
    /\ LET r    == render_text(font, req')
           left == IF "img" \in DOMAIN result /\ result.img.w = req'.width
                      /\ result.img.h = req'.height
                   THEN result.img.dark ELSE {}
       IN  result' = [r EXCEPT !.img.dark = @ \cup left]
    /\ Returns

\* lines 160-190: render_text, on a renderer that has served other calls
CallRenderText ==
    /\ CanCall
    /\ req' \in TurnRenderTextRequests
    /\ result' = render_text(font, req')
    /\ Returns

\* lines 192-248: render_multiline_text, likewise
CallRenderMultilineText ==
    /\ CanCall
    /\ req' \in TurnRenderMultilineRequests
    /\ result' = render_multiline_text(font, req')
    /\ Returns

\* lines 54-74: get_text_size, likewise
CallGetTextSize ==
    /\ CanCall
    /\ req' \in TurnMeasureRequests
    /\ result' = [status |-> "ok",
                  size |-> get_text_size(get_font_metadata(font).char_sizes,
                                         req'.text, req'.h_spacing, req'.v_spacing)]
    /\ Returns

\* lines 76-143: wrap_text with all its frames, likewise
CallWrapText ==
    /\ CanCall
    /\ req' \in TurnWrapRequests
    /\ result' = [status |-> "ok",
                  lines |-> wrap_text(get_font_metadata(font).char_sizes, req'.width,
                                      req'.text, req'.h_spacing, req'.break_words)]
    /\ Returns

NextCalls ==
    \/ CallRenderText
    \/ CallRenderMultilineText
    \/ CallGetTextSize
    \/ CallWrapText

SpecCalls == InitCalls /\ [][NextCalls]_vars

----------------------------------------------------------------------------
(* run.py: the main loop.  main holds the locals of main() and where it is *)
(* in the loop; lcd holds what the display board has been told.  Time is   *)
(* counted in seconds until the next page update is due.                   *)

\* lines 42-47
DISPLAY_MODES == <<"db-departures", "hackertours", "pretalx", "images">>

\* line 144: page switch interval in seconds
page_interval == 10

\* the display answers a transmit request with 0x15 once it has nothing to report
MaxMessages == 2

\* lines 161: the board after display.reset(): no page selected, both pages blank
ResetDisplay == [shown |-> 0, pages |-> [p \in 1..2 |-> "blank"], pending |-> 0]

\* lines 137-183: main() up to its loop
Start ==
    /\ main.at = "off"
    /\ main' = [at |-> "loop", mode_index |-> 0, mode |-> DISPLAY_MODES[0 + 1],
                page |-> 1, secondary_page |-> 2, wait |-> 0,
                hackertours_boarding |-> FALSE, hackertours_blink_state |-> FALSE,
                skip_current_mode |-> FALSE, response |-> "none"]
    /\ lcd' = ResetDisplay
    /\ UNCHANGED <<font, req, pc, result, wtext, wlines, calls>>

\* lines 190-206: once a second the boarding lights change sides
Blink(m) ==
    IF m.hackertours_boarding
    THEN [m EXCEPT !.hackertours_blink_state = ~@]
    ELSE m

\* lines 185-210: the page interval has not passed: blink, sleep, continue
Sleep ==
    /\ main.at = "loop"
    /\ main.wait > 0
    /\ main' = [Blink(main) EXCEPT !.wait = @ - 1]
    /\ UNCHANGED <<font, req, pc, result, wtext, wlines, calls, lcd>>

\* A page update that deletes the page it has drawn last and draws there again.
BeginUpdateInPlace ==
    /\ main.at = "loop"
    /\ main.wait = 0
    /\ lcd' = [lcd EXCEPT !.pages[main.page] = "blank"]
    /\ main' = [Blink(main) EXCEPT !.at = "draw",
                                   !.hackertours_boarding = FALSE,
                                   !.skip_current_mode = FALSE]
    /\ UNCHANGED <<font, req, pc, result, wtext, wlines, calls>>

\* lines 185-219: the interval has passed: the secondary page is deleted, the
\* pages are swapped and the flags of the update are reset
BeginUpdate ==
    /\ main.at = "loop"
    /\ main.wait = 0
    /\ lcd' = [lcd EXCEPT !.pages[main.secondary_page] = "blank"]
    /\ main' = [Blink(main) EXCEPT !.at = "draw",
                                   !.page = main.secondary_page,
                                   !.secondary_page = main.page,
                                   !.hackertours_boarding = FALSE,
                                   !.skip_current_mode = FALSE]
    /\ UNCHANGED <<font, req, pc, result, wtext, wlines, calls>>

\* lines 221-407: what the branch of a mode draws; boarding is whether a tour
\* is boarding now (lines 236-241)
Screen(mode, boarding) ==
    CASE mode = "hackertours" -> IF boarding THEN "boarding" ELSE "hackertours"
      [] mode = "pretalx" -> "pretalx"
      [] mode = "pride" -> "pride"
      [] mode = "images" -> "images"
      [] mode = "db-departures" -> "db-departures"
      [] OTHER -> "blank"

\* lines 220-411: the branch of the mode draws into page; the display may have
\* messages to report afterwards
Draw ==
    /\ main.at = "draw"
    /\ \E boarding \in BOOLEAN, n \in 0..MaxMessages :
          /\ boarding => main.mode = "hackertours"
          /\ lcd' = [lcd EXCEPT !.pages[main.page] = Screen(main.mode, boarding),
                                !.pending = n]
          /\ main' = [main EXCEPT !.at = "messages",
                                  !.hackertours_boarding = boarding]
    /\ UNCHANGED <<font, req, pc, result, wtext, wlines, calls>>

\* lines 276-335, 373-411: a remote source cannot be reached: the page stays
\* as far as it was drawn and the mode is to be skipped soon
DrawConnectionError ==
    /\ main.at = "draw"
    /\ main.mode \in {"pretalx", "db-departures"}
    /\ \E n \in 0..MaxMessages :
          lcd' = [lcd EXCEPT !.pages[main.page] = "partial", !.pending = n]
    /\ main' = [main EXCEPT !.at = "messages", !.skip_current_mode = TRUE]
    /\ UNCHANGED <<font, req, pc, result, wtext, wlines, calls>>

\* lines 220-411, 434-445: any other exception ends main()
DrawRaises ==
    /\ main.at = "draw"
    /\ lcd' = [lcd EXCEPT !.pages[main.page] = "partial"]
    /\ main' = [main EXCEPT !.at = "raised"]
    /\ UNCHANGED <<font, req, pc, result, wtext, wlines, calls>>

\* lines 414-418: a message of the display is fetched and is no error
ProcessMessage ==
    /\ main.at = "messages"
    /\ lcd.pending > 0
    /\ lcd' = [lcd EXCEPT !.pending = @ - 1]
    /\ main' = [main EXCEPT !.response = "message"]
    /\ UNCHANGED <<font, req, pc, result, wtext, wlines, calls>>

\* lines 414-418, 434-445: the message is an error: check_error raises
MessageRaises ==
    /\ main.at = "messages"
    /\ lcd.pending > 0
    /\ lcd' = [lcd EXCEPT !.pending = @ - 1]
    /\ main' = [main EXCEPT !.at = "raised", !.response = "error"]
    /\ UNCHANGED <<font, req, pc, result, wtext, wlines, calls>>

\* A mode change that does not care whether a tour is boarding.
NextModeAlways(m) ==
    LET stepped == m.mode_index + 1
        index   == IF stepped >= Len(DISPLAY_MODES) THEN 0 ELSE stepped
    IN  [m EXCEPT !.mode_index = index, !.mode = DISPLAY_MODES[index + 1]]

\* lines 423-428: the mode after an update
NextMode(m) ==
    LET stepped == IF ~m.hackertours_boarding THEN m.mode_index + 1 ELSE m.mode_index
        index   == IF stepped >= Len(DISPLAY_MODES) THEN 0 ELSE stepped
    IN  [m EXCEPT !.mode_index = index, !.mode = DISPLAY_MODES[index + 1]]

\* lines 414-433: the display answers 0x15: the page is selected, the mode
\* changes and the time of the next update is set
ShowPage ==
    /\ main.at = "messages"
    /\ lcd.pending = 0
    /\ lcd' = [lcd EXCEPT !.shown = main.page]
    /\ main' = [NextMode(main) EXCEPT
                    !.at = "loop",
                    !.response = "0x15",
                    !.wait = IF main.skip_current_mode THEN 1 ELSE page_interval]
    /\ UNCHANGED <<font, req, pc, result, wtext, wlines, calls>>

InitMain ==
    /\ font = FontComplete
    /\ req = [op |-> "none"]
    /\ pc = "idle"
    /\ result = [status |-> "none"]
    /\ wtext = <<>>
    /\ wlines = <<>>
    /\ calls = <<>>
    /\ main = NotStarted
    /\ lcd = NoDisplay

NextMain ==
    \/ Start
    \/ Sleep
    \/ BeginUpdate
    \/ Draw
    \/ DrawConnectionError
    \/ DrawRaises
    \/ ProcessMessage
    \/ MessageRaises
    \/ ShowPage

SpecMain == InitMain /\ [][NextMain]_vars

----------------------------------------------------------------------------
(* run.py: _flag_to_sectors.  A flag image is its size and its pixels, a   *)
(* pixel an RGB triple; x runs from 0 to width - 1, y from 0 to height - 1.*)

\* line 110: the colour as one number
hex_color(color) == color[1] * 65536 + color[2] * 256 + color[3]

\* lines 101-114: the rows from y on, with the colours found so far, the
\* colour of the stripe that is being counted and the rows counted of it
RECURSIVE ScanColumn(_, _, _, _, _, _)
ScanColumn(flag, x, y, colors, current_color, current_color_height) ==
    IF y >= flag.size[2]
    THEN colors
    ELSE LET color   == flag.pixels[<<x, y>>]
             counted == current_color_height + 1
         IN  IF color # current_color \/ y = flag.size[2] - 1
             THEN ScanColumn(flag, x, y + 1,
                             IF 20 * counted > flag.size[2]
                             THEN Append(colors, <<hex_color(current_color), counted>>)
                             ELSE colors,
                             color, 0)
             ELSE ScanColumn(flag, x, y + 1, colors, current_color, counted)

\* line 119: the rows of all the colours kept
RECURSIVE total_height(_)
total_height(colors) ==
    IF colors = <<>> THEN 0 ELSE colors[1][2] + total_height(Tail(colors))

\* line 122: round(n / d), halves to the even neighbour
round(n, d) ==
    LET q == n \div d
        r == n % d
    IN  IF 2 * r < d THEN q
        ELSE IF 2 * r > d THEN q + 1
        ELSE IF q % 2 = 0 THEN q ELSE q + 1

\* lines 119-122: every height as its share of 32 sectors
Rescaled(colors) ==
    LET total == total_height(colors)
    IN  [i \in 1..Len(colors) |-> <<colors[i][1], round(32 * colors[i][2], total)>>]

\* lines 125-126: the last height takes what the others leave of 32; there is
\* no last one in an empty list
Adapted(colors) ==
    IF total_height(colors) # 32
    THEN IF colors = <<>>
         THEN [status |-> "IndexError"]
         ELSE [status |-> "ok",
               colors |-> [colors EXCEPT ![Len(colors)][2] =
                              32 - total_height(SubSeq(colors, 1, Len(colors) - 1))]]
    ELSE [status |-> "ok", colors |-> colors]

\* lines 129-131: each colour as often as its height says, not at all for a
\* height below 1
RECURSIVE Sectors(_)
Sectors(colors) ==
    IF colors = <<>>
    THEN <<>>
    ELSE [i \in 1..Max(colors[1][2], 0) |-> colors[1][1]] \o Sectors(Tail(colors))

\* lines 91-132
_flag_to_sectors(flag) ==
    LET x       == flag.size[1] \div 2
        colors  == ScanColumn(flag, x, 0, <<>>, flag.pixels[<<x, 0>>], 0)
        adapted == Adapted(Rescaled(Take(colors, 32)))
    IN  IF adapted.status = "ok"
        THEN [status |-> "ok", sectors |-> Sectors(adapted.colors)]
        ELSE adapted

\* flags of horizontal stripes: at most MaxStripes stripes of at most
\* MaxStripeHeight rows each, the heights repeating after three stripes,
\* neighbours in different colours
MaxStripes == 9
MaxStripeHeight == 3
MaxFlagWidth == 2

StripeColors == << <<228, 3, 3>>, <<255, 255, 255>>, <<0, 77, 255>> >>

RECURSIVE Rows(_, _)
Rows(heights, i) ==
    IF i > Len(heights)
    THEN <<>>
    ELSE [k \in 1..heights[i] |-> StripeColors[((i - 1) % 3) + 1]] \o Rows(heights, i + 1)

StripedFlag(width, heights) ==
    LET rows == Rows(heights, 1)
    IN  [size |-> <<width, Len(rows)>>,
         pixels |-> [p \in (0..(width - 1)) \X (0..(Len(rows) - 1)) |-> rows[p[2] + 1]]]

\* twenty stripes, none counted as more than a twentieth of the rows
ThinStripes == <<1, 2, 2, 2, 2, 2, 2, 2, 2, 2, 2, 2, 2, 2, 2, 2, 2, 2, 2, 3>>

StripeHeights ==
    {[i \in 1..n |-> every[((i - 1) % 3) + 1]] :
        n \in 1..MaxStripes, every \in [1..3 -> 1..MaxStripeHeight]}
    \cup {ThinStripes}

Flags == {StripedFlag(w, heights) : w \in 1..MaxFlagWidth, heights \in StripeHeights}

InitFlag ==
    /\ font = FontComplete
    /\ pc = "idle"
    /\ req = [op |-> "none"]
    /\ wtext = <<>>
    /\ wlines = <<>>
    /\ result = [status |-> "none"]
    /\ calls = <<>>
    /\ main = NotStarted
    /\ lcd = NoDisplay

\* lines 91-132: a call of _flag_to_sectors on an image
FlagToSectors ==
    /\ pc = "idle"
    /\ req' \in [op : {"_flag_to_sectors"}, flag : Flags]
    /\ result' = _flag_to_sectors(req'.flag)
    /\ pc' = "done"
    /\ UNCHANGED <<font, wtext, wlines, calls, main, lcd>>

NextFlag == FlagToSectors

SpecFlag == InitFlag /\ [][NextFlag]_vars

----------------------------------------------------------------------------
(* What the wrap_text claims speak of.                                     *)

WrapDone == pc = "done" /\ result.status = "ok"

Measure(line) == get_text_size(font.sizes, line, req.h_spacing, 0)[1]

TooWide(line) == Measure(line) > req.width

HasSpace(line) == \E i \in 1..Len(line) : line[i] = SP

\* The frames compute what the recursive function computes.
WrapFramesAgree ==
    WrapDone =>
        result.lines = wrap_text(font.sizes, req.width, req.text,
                                 req.h_spacing, req.break_words)


Words(text) == Split(text, SP)

Range(seq) == {seq[i] : i \in 1..Len(seq)}

NonSpace(text) == Cardinality({i \in 1..Len(text) : text[i] # SP})

\* What every frame of wrap_text makes smaller.
Variant(text) == NonSpace(text) + Len(text)

\* C2, as amended: a returned line measures more than the width only if it
\* is, with break_words, a single character (whose own advance width then
\* exceeds the width) or, without break_words, a single word of the text.
C2_WideLineIsOneCharOrOneWord ==
    WrapDone =>
        \A i \in 1..Len(result.lines) :
            LET line == result.lines[i]
            IN  TooWide(line) =>
                    IF req.break_words
                    THEN Len(line) = 1
                    ELSE ~HasSpace(line) /\ line \in Range(Words(req.text))

\* C2, as claimed: a returned line measures more than the width only without
\* break_words, when it is a single word; with break_words no line does.
C2_WideLineOnlyWithoutBreakWords ==
    WrapDone =>
        \A i \in 1..Len(result.lines) :
            TooWide(result.lines[i]) =>
                ~req.break_words /\ ~HasSpace(result.lines[i])

\* C2: break_words, and a line of one character wider than the width has
\* been returned among others.
C2_Witness ==
    /\ WrapDone /\ req.break_words /\ Len(result.lines) >= 2
    /\ \E i \in 1..Len(result.lines) :
          Len(result.lines[i]) = 1 /\ TooWide(result.lines[i])

\* C3: wrap_text terminates for every width >= 0: every frame that does not
\* return calls itself with a text of a smaller variant (its characters
\* other than spaces plus its length), so that a call on a text enters at
\* most as many frames as the variant of the text, plus the returning one.
C3_WrapTerminates ==
    /\ [][pc = "wrap" /\ pc' = "wrap" => Variant(wtext') < Variant(wtext)]_vars
    /\ [](pc \in {"wrap", "done"} =>
            /\ Variant(wtext) >= 0
            /\ Len(wlines) + Variant(wtext) <= Variant(req.text) + 1)

\* C3: a call has returned after three frames or more on a text with two
\* spaces in a row and a glyph wider than the width.
C3_Witness ==
    /\ WrapDone /\ Len(result.lines) >= 4
    /\ \E i \in 1..(Len(req.text) - 1) : req.text[i] = SP /\ req.text[i + 1] = SP
    /\ \E i \in 1..Len(req.text) : TooWide(<<req.text[i]>>)

\* C4: without break_words, the lines joined by single spaces and split at
\* the spaces are the words of the text, in their order.
C4_JoinedLinesAreTheWords ==
    WrapDone /\ ~req.break_words =>
        Words(Join(result.lines, SP)) = Words(req.text)

\* C9: without break_words, a first word wider than the width is the first
\* line, and every line is the single-space join of consecutive words of the
\* text.
C9_LinesAreRunsOfWords ==
    WrapDone /\ ~req.break_words =>
        LET words == Words(req.text)
        IN  /\ TooWide(words[1]) => result.lines[1] = words[1]
            /\ \A k \in 1..Len(result.lines) :
                  \E i \in 1..Len(words) : \E j \in i..Len(words) :
                      result.lines[k] = Join(SubSeq(words, i, j), SP)

IsScenario ==
    /\ req = ScenarioRequest
    /\ ~TooWide(<<"a", SP, "b", "b">>)
    /\ ~TooWide(<<"c">>)
    /\ TooWide(SubSeq(ScenarioText, 6, 16))

\* C10: in the scenario the first line is "a bb", every later line is a
\* run of one or more 'c' and nothing else, the runs hold 11 'c' together,
\* and no line measures more than 50.
C10_ScenarioLines ==
    WrapDone /\ IsScenario =>
        LET lines == result.lines
        IN  /\ lines[1] = <<"a", SP, "b", "b">>
            /\ \A k \in 2..Len(lines) :
                  lines[k] # <<>> /\ \A i \in 1..Len(lines[k]) : lines[k][i] = "c"
            /\ Len(Join(Tail(lines), SP)) - (Len(lines) - 2) = 11
            /\ \A k \in 1..Len(lines) : ~TooWide(lines[k])

\* A frame of wrap_text whose text does not fit is about to accept a line.
Wrapping == pc = "wrap" /\ ~WrapFits

\* The numbers n of leading words of the current text, not all of them, that
\* joined by single spaces are a text that fits.
FittingWordPrefixes ==
    LET words == Words(wtext)
    IN  {n \in 1..(Len(words) - 1) :
            /\ Join(SubSeq(words, 1, n), SP) # <<>>
            /\ ~TooWide(Join(SubSeq(words, 1, n), SP))}

\* The lengths n of the proper prefixes of the first word that fit.
FittingCharPrefixes ==
    LET word == Words(wtext)[1]
    IN  {n \in 1..(Len(word) - 1) : ~TooWide(Take(word, n))}

WithoutSpaces(text) == SelectSeq(text, LAMBDA ch : ch # SP)

RECURSIVE Concat(_)
Concat(lines) == IF lines = <<>> THEN <<>> ELSE lines[1] \o Concat(Tail(lines))

\* C13: once a line has been accepted and the text that remains is empty,
\* no further line is added to the returned list.
C13_EmptyRemainderAddsNoLine ==
    [][pc = "wrap" /\ wlines # <<>> /\ wtext = <<>> => wlines' = wlines]_vars

\* C14: with break_words and a first word that alone does not fit, the line
\* is the longest proper prefix of the word that fits, or its first character
\* if none does (nothing if the word is empty), and the text wrapped next
\* is the characters cut off followed by the other words, nothing else.
C14_BrokenWordGoesBack ==
    [][Wrapping /\ FittingWordPrefixes = {} /\ req.break_words =>
        LET words == Words(wtext)
            word  == words[1]
            n     == IF word = <<>> THEN 0
                     ELSE IF FittingCharPrefixes = {} THEN 1
                     ELSE MaxOf(FittingCharPrefixes)
            cut   == IF n < Len(word) THEN <<Drop(word, n)>> ELSE <<>>
        IN  /\ wlines' = Append(wlines, Take(word, n))
            /\ wtext' = Join(cut \o Tail(words), SP)]_vars

\* C15: when the text does not fit but some of its leading words, not all
\* and not nothing, do, the line accepted is the longest such run of leading
\* words joined by single spaces, and the text wrapped next is the other
\* words joined by single spaces.
C15_LongestWordPrefixAccepted ==
    [][Wrapping /\ FittingWordPrefixes # {} =>
        LET words == Words(wtext)
            n     == MaxOf(FittingWordPrefixes)
        IN  /\ wlines' = Append(wlines, Join(SubSeq(words, 1, n), SP))
            /\ ~TooWide(wlines'[Len(wlines')])
            /\ wtext' = Join(SubSeq(words, n + 1, Len(words)), SP)]_vars

\* C15: a call has returned whose first frame accepted two of three words.
C15_Witness ==
    /\ WrapDone /\ Len(Words(req.text)) = 3 /\ TooWide(req.text)
    /\ \A i \in 1..3 : Words(req.text)[i] # <<>>
    /\ result.lines[1] = Join(SubSeq(Words(req.text), 1, 2), SP)

\* C16: with break_words, a returned line that measures more than the width
\* is one character, and the advance width of that character is more than
\* the width.
C16_WideLineIsOneWideChar ==
    WrapDone /\ req.break_words =>
        \A i \in 1..Len(result.lines) :
            TooWide(result.lines[i]) =>
                /\ Len(result.lines[i]) = 1
                /\ CharSize(font.sizes, result.lines[i][1])[1] > req.width

\* C16: with break_words, a word of three characters has been cut into
\* lines, one of them a character wider than the width.
C16_Witness ==
    /\ WrapDone /\ req.break_words /\ req.width > 0
    /\ Len(Words(req.text)[1]) = 3
    /\ \E i \in 1..Len(result.lines) : TooWide(result.lines[i])
    /\ \E i \in 1..Len(result.lines) :
          Len(result.lines[i]) = 2 /\ ~HasSpace(result.lines[i])

\* C17: the returned lines, put together in order without their spaces, are
\* the text without its spaces.
C17_NonSpaceCharactersKept ==
    WrapDone => WithoutSpaces(Concat(result.lines)) = WithoutSpaces(req.text)

\* C17: a text of two different words has been wrapped into three lines or
\* more, one of its words broken.
C17_Witness ==
    /\ WrapDone /\ req.break_words /\ Len(result.lines) >= 3
    /\ Len(Words(req.text)) = 2
    /\ \E i \in 1..Len(req.text) : req.text[i] = "a"
    /\ \E i \in 1..Len(req.text) : req.text[i] = "b"
    /\ \A i \in 1..Len(result.lines) : result.lines[i] \notin Range(Words(req.text))

----------------------------------------------------------------------------
(* What the render claims speak of.                                        *)

RenderDone == pc = "done" /\ req.op \in {"render_text", "render_multiline_text"}

Returned == RenderDone /\ result.status = "ok"

\* The pixels of the returned bitmap that are not background: the dark
\* ones, or the light ones of an inverted bitmap.
Ink == IF req.inverted THEN Pixels(result.img) \ result.img.dark
       ELSE result.img.dark

InkBox ==
    LET xs == {p[1] : p \in Ink}
        ys == {p[2] : p \in Ink}
    IN  <<MinOf(xs), MinOf(ys), MaxOf(xs) + 1, MaxOf(ys) + 1>>

HSpacing == IF req.op = "render_text" THEN req.spacing ELSE req.h_spacing

\* C1: the bitmap a render call returns has the requested width and height,
\* and no pixel of it lies outside them.
C1_ReturnedSizeIsRequested ==
    Returned =>
        /\ result.img.w = req.width
        /\ result.img.h = req.height
        /\ result.img.dark \subseteq Pixels(result.img)

\* C1: a multi-line call has returned a bitmap with ink for a text that is
\* wider than the canvas and not wrapped.
C1_Witness ==
    /\ Returned /\ req.op = "render_multiline_text" /\ ~req.auto_wrap
    /\ get_text_size(font.sizes, req.text, req.h_spacing, 0)[1] > req.width
    /\ Ink # {}

HasGlyph(char) == get_char_code(char) \in DOMAIN font.glyphs

\* The advance of a character whose bitmap is there: the forced width, or the
\* width of the bitmap.
GlyphAdvance(char) ==
    IF req.char_width # None THEN req.char_width
    ELSE font.glyphs[get_char_code(char)].w

\* The advance width metadata.json declares for a character, 0 without entry.
DeclaredAdvance(char) ==
    IF font.meta THEN CharSize(font.sizes, char)[1] ELSE 0

\* Where the k-th character of a line is rendered when the line starts at
\* x0 and a character without bitmap moves the cursor by its declared width
\* (declared) or not at all.
RECURSIVE CursorAt(_, _, _, _)
CursorAt(line, k, x0, declared) ==
    IF k = 1 THEN x0
    ELSE CursorAt(line, k - 1, x0, declared)
         + (IF HasGlyph(line[k - 1]) THEN GlyphAdvance(line[k - 1])
            ELSE IF declared THEN DeclaredAdvance(line[k - 1]) ELSE 0)
         + HSpacing

\* The lines a call renders with their first cursor position, and the
\* cursor positions it rendered their characters at.
RenderedLines ==
    IF req.op = "render_text" THEN <<req.text>>
    ELSE LET lines == RenderLines(font.sizes, req, splitlines(req.text), 1)
         IN  [i \in 1..Len(lines) |-> Stripped(lines[i])]

RenderedAt == IF req.op = "render_text" THEN <<result.xs>> ELSE result.xs

LineStart == IF req.op = "render_text" THEN req.pad_left ELSE 0

\* A character in the middle of a rendered line has no bitmap but an entry
\* in the metadata.
MissingMidLine ==
    /\ Returned
    /\ LET lines == RenderedLines
       IN  \E n \in 1..Len(lines) :
              \E i \in 2..(Len(lines[n]) - 1) :
                  /\ ~HasGlyph(lines[n][i])
                  /\ get_char_code(lines[n][i]) \in DOMAIN font.sizes

CursorsFollow(declared) ==
    LET lines == RenderedLines
        at    == RenderedAt
    IN  /\ Len(at) = Len(lines)
        /\ \A n \in 1..Len(lines) :
              /\ Len(at[n]) = Len(lines[n])
              /\ \A k \in 1..Len(lines[n]) :
                    at[n][k] = CursorAt(lines[n], k, LineStart, declared)

C7_RightmostInkAtRightEdge ==
    Returned /\ req.halign = "right" /\ Ink # {} =>
        LET rightmost == InkBox[3] - 1
        IN  /\ rightmost >= req.width - 2
            /\ rightmost <= req.width

\* C7: a right-aligned multi-line call has returned a bitmap with ink whose
\* line was narrower than the canvas.
C7_Witness ==
    /\ Returned /\ req.halign = "right" /\ Ink # {}
    /\ req.op = "render_multiline_text" /\ req.text = <<"b", "a">>
    /\ req.width = MaxWidth

\* C8: with halign 'center', valign 'middle' and ink on the canvas, the
\* margins left and right of the ink differ by at most 1, and so do those
\* above and below; in the scenario the ink is columns 4..19, rows 1..14.
C8_CenteredMargins ==
    Returned /\ req.halign = "center" /\ req.valign = "middle" /\ Ink # {} =>
        LET box    == InkBox
            left   == box[1]
            right  == req.width - box[3]
            top    == box[2]
            bottom == req.height - box[4]
        IN  /\ left - right \in {-1, 0, 1}
            /\ top - bottom \in {-1, 0, 1}
            /\ req = ScenarioRenderText =>
                  /\ box[3] - box[1] = 16
                  /\ left = 4 /\ right = 4 /\ top = 1 /\ bottom = 1

\* C8: the scenario's render_text call has returned.
C8_Witness ==
    /\ Returned /\ req = ScenarioRenderText /\ font = FontF
    /\ Ink = {p \in Pixels(result.img) : InBox(p, 4, 1, 20, 15)}

----------------------------------------------------------------------------
(* What the claims on get_text_size and render_character speak of.         *)

Measured == pc = "done" /\ req.op = "get_text_size" /\ result.status = "ok"

RECURSIVE Sum(_)
Sum(numbers) ==
    IF numbers = <<>> THEN 0
    ELSE numbers[Len(numbers)] + Sum(SubSeq(numbers, 1, Len(numbers) - 1))

HasEntry(char) == get_char_code(char) \in DOMAIN font.sizes

\* The advance widths of the characters of a line, 0 without metadata entry.
AdvanceWidths(line) ==
    [i \in 1..Len(line) |->
        IF HasEntry(line[i]) THEN font.sizes[get_char_code(line[i])][1] ELSE 0]

\* The largest glyph height on a line, 0 when no character has an entry.
TallestGlyph(line) ==
    MaxOf({0} \cup {font.sizes[get_char_code(line[i])][2] :
                       i \in {j \in 1..Len(line) : HasEntry(line[j])}})

\* h_spacing or v_spacing between n things
Between(n, spacing) == IF n > 1 THEN (n - 1) * spacing ELSE 0

\* C11: the width of a single line is the sum of the advance widths of its
\* characters with a metadata entry plus h_spacing between consecutive
\* characters; the height is the sum over the lines of their largest glyph
\* height plus v_spacing between consecutive lines; the empty text is (0, 0).
C11_MeasuredSize ==
    Measured =>
        LET lines == splitlines(req.text)
        IN  /\ Len(lines) = 1 =>
                  result.size[1] = Sum(AdvanceWidths(lines[1]))
                                   + Between(Len(lines[1]), req.h_spacing)
            /\ result.size[2] =
                  Sum([i \in 1..Len(lines) |-> TallestGlyph(lines[i])])
                  + Between(Len(lines), req.v_spacing)
            /\ req.text = <<>> => result.size = <<0, 0>>

\* C11: a line of glyphs of different heights, or with a character without
\* entry, has been measured with spacings.
C11_Witness ==
    /\ Measured /\ font = FontTall
    /\ req.text = <<"a", "b", NL>> \/ req.text = <<SP, "b", "a">>
    /\ req.h_spacing = 2 /\ req.v_spacing = 3
    /\ result.size \in {<<5, 3>>, <<7, 3>>}

\* C19: render_character for a glyph file that is not there raises nothing,
\* leaves every pixel of the canvas as it was and returns the failure flag
\* with the cursor it was given.
C19_MissingGlyphLeavesCanvas ==
    pc = "done" /\ req.op = "render_character"
                /\ req.code \notin DOMAIN font.glyphs =>
        /\ result.status = "ok"
        /\ ~result.success
        /\ result.img = req.img
        /\ result.x = req.x /\ result.y = req.y

\* C19: render_character has returned for a missing glyph, a forced width
\* and a cursor over ink.
C19_Witness ==
    /\ pc = "done" /\ req.op = "render_character"
    /\ req.code \notin DOMAIN font.glyphs
    /\ req.force_width = 3
    /\ <<req.x, req.y>> \in req.img.dark
    /\ ~result.success

----------------------------------------------------------------------------
(* What the claims on the realignment and on the vertical cursor speak of. *)

Realigning ==
    req.halign \in {"center", "right"} \/ req.valign \in {"middle", "bottom"}

\* The first character rendered, if any.
FirstRendered ==
    IF RenderedLines # <<>> /\ RenderedLines[1] # <<>>
    THEN RenderedLines[1][1] ELSE SP

\* C18: with ink on the canvas and halign 'center' or 'right' or valign
\* 'middle' or 'bottom', the box of w x h around the ink has its left edge at
\* (width - w) // 2, width - w or 0 for center, right or left and its top
\* edge at (height - h) // 2, height - h or 0 for middle, bottom or top,
\* whatever pad_left and pad_top are; with 'left' and 'top' no ink lies left
\* of pad_left or above pad_top, and a first glyph with ink in its corner
\* has it at (pad_left, pad_top).
C18_RealignedWhenAsked ==
    Returned /\ Ink # {} =>
        LET box == InkBox
            w   == box[3] - box[1]
            h   == box[4] - box[2]
        IN  IF Realigning
            THEN /\ box[1] = CASE req.halign = "center" -> (req.width - w) \div 2
                                  [] req.halign = "right"  -> req.width - w
                                  [] req.halign = "left"   -> 0
                 /\ box[2] = CASE req.valign = "middle" -> (req.height - h) \div 2
                                  [] req.valign = "bottom" -> req.height - h
                                  [] req.valign = "top"    -> 0
            ELSE /\ \A p \in Ink : p[1] >= req.pad_left /\ p[2] >= req.pad_top
                 /\ FirstRendered = "b" /\ HasGlyph("b") =>
                        <<req.pad_left, req.pad_top>> \in Ink

\* C18: a call with halign 'left', valign 'bottom' and paddings has returned
\* ink, which it composed away from the left edge.
C18_Witness ==
    /\ Returned /\ Ink # {}
    /\ req.halign = "left" /\ req.valign = "bottom"
    /\ req.pad_left = 1 /\ req.pad_top = 1
    /\ InkBox[1] = 0 /\ InkBox[4] = req.height

\* The height get_text_size measures for a render-line: that of its tallest
\* glyph, or that of the space when nothing but whitespace is on it.
RenderLineHeight(line) ==
    IF \A i \in 1..Len(line) : IsWhitespace(line[i])
    THEN (IF HasEntry(SP) THEN font.sizes[get_char_code(SP)][2] ELSE 0)
    ELSE TallestGlyph(strip(line))

\* The explicit lines, each replaced by its wrapped lines if auto_wrap.
WrappedLines ==
    LET lines == splitlines(req.text)
    IN  Concat([i \in 1..Len(lines) |->
                   IF req.auto_wrap
                   THEN wrap_text(font.sizes, req.width, lines[i],
                                  req.h_spacing, req.break_words)
                   ELSE <<lines[i]>>])

\* C20: the k-th render-line is pasted at pad_top plus, for every render-line
\* before it, its measured height and v_spacing; a line with nothing on it
\* counts with the height of the space.
C20_LinesPastedAtRunningCursor ==
    Returned /\ req.op = "render_multiline_text" =>
        LET lines   == WrappedLines
            heights == [j \in 1..Len(lines) |-> RenderLineHeight(lines[j])]
        IN  /\ Len(result.ys) = Len(lines)
            /\ \A k \in 1..Len(lines) :
                  result.ys[k] =
                      req.pad_top
                      + Sum([j \in 1..(k - 1) |-> heights[j] + req.v_spacing])

\* C20: three lines of different heights have been pasted with v_spacing,
\* the one in the middle with nothing on it.
C20_Witness ==
    /\ Returned /\ req.op = "render_multiline_text"
    /\ font = FontTall
    /\ req.text = <<"b", NL, NL>> \/ req.text = <<"b", NL, NL, "a">>
    /\ req.v_spacing = 1 /\ req.pad_top = 0
    /\ Len(result.ys) >= 2 /\ result.ys[2] = 4

----------------------------------------------------------------------------
(* What the claim on calls in turn speaks of.                              *)

IsRender(call) == call.req.op \in {"render_text", "render_multiline_text"}

----------------------------------------------------------------------------
(* The main loop of run.py.                                                *)

Running == main.at # "off"

\* the page that is not p
OtherPage(p) == 3 - p

\* a page update ends: the page is selected and the loop starts over
UpdateEnds == main.at = "messages" /\ main'.at = "loop"

\* C21: after every page update the mode is the next entry of DISPLAY_MODES,
\* the first after the last, unless the update has shown a boarding screen:
\* then the mode index is as before and the mode is still "hackertours".  The
\* mode changes at no other time, is always the entry of DISPLAY_MODES at
\* mode_index, and no page ever holds the screen of the "pride" branch.
C21_ModeAdvancesUnlessBoarding ==
    /\ [](Running => /\ main.mode_index \in 0..(Len(DISPLAY_MODES) - 1)
                     /\ main.mode = DISPLAY_MODES[main.mode_index + 1]
                     /\ main.mode \in {"db-departures", "hackertours", "pretalx", "images"}
                     /\ \A p \in 1..2 : lcd.pages[p] # "pride")
    /\ [][Running =>
            IF UpdateEnds
            THEN IF lcd.pages[main.page] = "boarding"
                 THEN /\ main'.mode_index = main.mode_index
                      /\ main'.mode = "hackertours"
                 ELSE /\ main'.mode_index = (main.mode_index + 1) % 4
                      /\ main'.mode = DISPLAY_MODES[main'.mode_index + 1]
            ELSE main'.mode_index = main.mode_index /\ main'.mode = main.mode]_vars

\* C21 happens: a tour is boarding for the second time round the modes (the
\* lights have changed sides before, and the page before shows departures),
\* and the mode has stayed "hackertours".
C21_Witness ==
    /\ main.at = "loop"
    /\ main.wait = page_interval
    /\ main.hackertours_blink_state
    /\ main.mode = "hackertours"
    /\ lcd.pages[lcd.shown] = "boarding"
    /\ lcd.pages[OtherPage(lcd.shown)] = "db-departures"

\* C22: page and secondary_page are 1 and 2, one each, and every page update
\* swaps them.  The page an update deletes and draws into is not the page the
\* display shows, which is the page of the update before; no other page
\* changes.  The page is selected only when the update has drawn and the
\* display has no message left.
C22_PagesAreSwappedAndDrawnHidden ==
    /\ [](Running => {main.page, main.secondary_page} = {1, 2})
    /\ [](main.at \in {"draw", "messages"} => main.page # lcd.shown)
    /\ [][Running =>
            /\ (main.at = "loop" /\ main'.at = "draw") =>
                  /\ main'.page = main.secondary_page
                  /\ main'.secondary_page = main.page
                  /\ main'.page # lcd.shown
                  /\ lcd'.pages[main'.page] = "blank"
            /\ \A p \in 1..2 :
                  lcd'.pages[p] # lcd.pages[p] =>
                      p # lcd.shown /\ p = main'.page /\ main.at \in {"loop", "draw"}
            /\ (main'.page # main.page) => (main.at = "loop" /\ main'.at = "draw")
            /\ lcd'.shown # lcd.shown =>
                  /\ UpdateEnds
                  /\ lcd.pending = 0
                  /\ lcd'.shown = main.page
                  /\ lcd'.pages = lcd.pages
                  /\ lcd.pages[main.page] # "blank"]_vars

\* C22 happens: the third update has deleted page 2 while the display shows
\* page 1, which the second update has drawn.
C22_Witness ==
    /\ main.at = "draw"
    /\ main.page = 2
    /\ lcd.shown = 1
    /\ lcd.pages[1] = "hackertours"
    /\ lcd.pages[2] = "blank"

----------------------------------------------------------------------------
(* _flag_to_sectors.                                                       *)

FlagDone == pc = "done" /\ req.op = "_flag_to_sectors"

\* the colours of the middle column from top to bottom
MiddleColumn(flag) ==
    [k \in 1..flag.size[2] |-> flag.pixels[<<flag.size[1] \div 2, k - 1>>]]

\* rows a..b of the column are one stripe: one colour, other colours around
IsStripe(column, a, b) ==
    /\ \A k \in a..b : column[k] = column[a]
    /\ a > 1 => column[a - 1] # column[a]
    /\ b < Len(column) => column[b + 1] # column[a]

\* the middle column has a stripe taller than 5 % of the image height
HasTallStripe(flag) ==
    LET column == MiddleColumn(flag)
    IN  \E a \in 1..Len(column) : \E b \in a..Len(column) :
            IsStripe(column, a, b) /\ 20 * (b - a + 1) > Len(column)

\* C23: for every flag whose middle column has a stripe taller than 5 % of
\* the image height, _flag_to_sectors returns a list of exactly 32 colours.
C23_ExactlyThirtyTwoSectors ==
    (FlagDone /\ HasTallStripe(req.flag)) =>
        (result.status = "ok" /\ Len(result.sectors) = 32)

\* C23 fails: nine stripes of two rows each come back as 33 sectors.
C23_NineStripes ==
    /\ FlagDone
    /\ req.flag.size[2] = 18
    /\ HasTallStripe(req.flag)
    /\ result.status = "ok"
    /\ Len(result.sectors) = 33

============================================================================
